---- MODULE Spec2Model ----
(***************************************************************************)
(* A model of shapespresso's ShExC <-> ShExJ converter with comment        *)
(* preservation (parser/parser.py) and of its schema similarity metrics    *)
(* (metrics/similarity.py).                                                *)
(*                                                                         *)
(* A text is the sequence of its lines as str.split("\n") yields them (so  *)
(* a text has at least one line); a line is a sequence of one-character    *)
(* strings.  The only whitespace character of the model is the space.      *)
(***************************************************************************)
EXTENDS Integers, Sequences, FiniteSets, TLC

VARIABLES
    \* comment extraction / reinsertion round trip
    cm_text,        \* the ShExC text given to the round trip
    cm_comments,    \* records returned by comment_parser_helper
    cm_serialized,  \* text produced by the serializer (before insert_comments)
    cm_out,         \* text returned by insert_comments
    cm_pc,
    \* shexc_to_shexj
    input_text,     \* the argument of shexc_to_shexj as the caller passed it
    shexc_text,     \* the local variable shexc_text (reassigned on recovery)
    calls,          \* grammar engine invocations so far: [text, schema, errors]
    cv_result,      \* what shexc_to_shexj handed to its caller
    cv_pc,
    \* compute_tree_edit_distance on two trees
    td_schema_1,    \* the schemas the two trees are built from
    td_schema_2,
    tree_1,         \* the two ShapeNode objects (None before they are built)
    tree_2,
    ted_12,         \* compute_tree_edit_distance(tree_1, tree_2), once called
    ted_21,         \* compute_tree_edit_distance(tree_2, tree_1), once called
    td_pc,
    \* evaluate_ted
    ev_n,           \* number of classes of the batch
    ev_seen,        \* the files of the classes the loop has reached
    ev_results,     \* what the loop did with each of them
    teds,           \* the accumulators
    normalized_teds,
    ev_avg,         \* the means computed after the loop
    ev_raised,      \* the exception that ended the call, if any
    ev_pc,
    \* transform_schema_to_tree and transform_schema_to_graph on one schema
    tr_schema,      \* the schema given to both builders
    tr_shape_id,    \* the shape id requested from transform_schema_to_tree
    tr_tree,        \* the tree returned (None before the call)
    tr_graph,       \* the graph returned (None before the call)
    tr_log,         \* the log records the builders emitted
    tr_pc,
    \* insert_comments on a text and a list of records
    in_text,        \* the argument shexc_text
    in_comments,    \* the argument comments
    in_lines,       \* the local list shexc_lines
    in_before,      \* shexc_lines before the latest iteration of the loop
    in_left,        \* number of records the loop has not reached yet
    in_out,         \* the text returned (None before the return)
    in_log,         \* the log records emitted
    in_pc

vars == <<cm_text, cm_comments, cm_serialized, cm_out, cm_pc,
          input_text, shexc_text, calls, cv_result, cv_pc,
          td_schema_1, td_schema_2, tree_1, tree_2, ted_12, ted_21, td_pc,
          ev_n, ev_seen, ev_results, teds, normalized_teds, ev_avg,
          ev_raised, ev_pc,
          tr_schema, tr_shape_id, tr_tree, tr_graph, tr_log, tr_pc,
          in_text, in_comments, in_lines, in_before, in_left, in_out,
          in_log, in_pc>>

cmVars == <<cm_text, cm_comments, cm_serialized, cm_out, cm_pc>>
cvVars == <<input_text, shexc_text, calls, cv_result, cv_pc>>

\* what the actions of one part of the program leave alone
tdVars == <<td_schema_1, td_schema_2, tree_1, tree_2, ted_12, ted_21, td_pc>>
evVars == <<ev_n, ev_seen, ev_results, teds, normalized_teds, ev_avg,
            ev_raised, ev_pc>>
trVars == <<tr_schema, tr_shape_id, tr_tree, tr_graph, tr_log, tr_pc>>
inVars == <<in_text, in_comments, in_lines, in_before, in_left, in_out,
            in_log, in_pc>>
cmOther == <<cvVars, tdVars, evVars, trVars, inVars>>
cvOther == <<cmVars, tdVars, evVars, trVars, inVars>>
tdOther == <<cmVars, cvVars, evVars, trVars, inVars>>
evOther == <<cmVars, cvVars, tdVars, trVars, inVars>>
trOther == <<cmVars, cvVars, tdVars, evVars, inVars>>
inOther == <<cmVars, cvVars, tdVars, evVars, trVars>>

---------------------------------------------------------------------------
(* Bounds *)

MaxLines == 4
MaxConvLines == 3
MaxConstraints == 2
MaxClasses == 3
MaxInsLines == 2
MaxRecords == 2

---------------------------------------------------------------------------
(* Python str operations on lines *)

IsSpace(ch) == ch = " "

RECURSIVE LStrip(_)
LStrip(s) ==
    IF s # <<>> /\ IsSpace(Head(s)) THEN LStrip(Tail(s)) ELSE s

RECURSIVE RStripChars(_, _)
RStripChars(s, chars) ==
    IF s # <<>> /\ s[Len(s)] \in chars
    THEN RStripChars(SubSeq(s, 1, Len(s) - 1), chars)
    ELSE s

RStrip(s) == RStripChars(s, {" "})

Strip(s) == LStrip(RStrip(s))

StartsWith(s, p) == Len(s) >= Len(p) /\ SubSeq(s, 1, Len(p)) = p

Contains(s, ch) == \E i \in 1..Len(s) : s[i] = ch

\* str.index(ch), 0-based; only applied where ch occurs in s
Index(s, ch) == (CHOOSE i \in 1..Len(s) : s[i] = ch /\ \A j \in 1..(i - 1) : s[j] # ch) - 1

\* s[:n]
Prefix(s, n) == SubSeq(s, 1, n)

\* s[n:]
Suffix(s, n) == SubSeq(s, n + 1, Len(s))

\* list.insert(idx, x) with a 0-based idx <= len
ListInsert(l, idx, x) == SubSeq(l, 1, idx) \o <<x>> \o SubSeq(l, idx + 1, Len(l))

RECURSIVE Reverse(_)
Reverse(l) == IF l = <<>> THEN <<>> ELSE Append(Reverse(Tail(l)), Head(l))

\* str.splitlines() of a text: a final empty piece is no line, the empty
\* text has no line at all
SplitLines(text) ==
    IF text[Len(text)] = <<>> THEN SubSeq(text, 1, Len(text) - 1) ELSE text

\* '\n'.join(lines), again as the sequence str.split("\n") would give
Join(lines) == IF lines = <<>> THEN << <<>> >> ELSE lines

\* Python's int 0, which equals no str
NoLocation == <<"int:0">>

---------------------------------------------------------------------------
(* parser.py: comment extraction *)

\* position_start_line returning the number of lines when no line starts a
\* shape
position_start_line_end(text) ==
    LET hits == { i \in 1..Len(text) :
                    \/ StartsWith(text[i], <<"s", "t", "a", "r", "t">>)
                    \/ StartsWith(text[i], <<"<">>) }
    IN  IF hits = {} THEN Len(text)
        ELSE (CHOOSE i \in hits : \A j \in hits : i <= j) - 1

\* lines 22-35
position_start_line(text) ==
    LET hits == { i \in 1..Len(text) :
                    \/ StartsWith(text[i], <<"s", "t", "a", "r", "t">>)
                    \/ StartsWith(text[i], <<"<">>) }
    IN  IF hits = {} THEN 0
        ELSE (CHOOSE i \in hits : \A j \in hits : i <= j) - 1

\* the first non-empty line of lines[1:], or 0
NextNonEmpty(lines) ==
    LET hits == { i \in 2..Len(lines) : lines[i] # <<>> }
    IN  IF hits = {} THEN NoLocation
        ELSE lines[CHOOSE i \in hits : \A j \in hits : i <= j]

locate_comment(lines, case) ==
    IF case = "general"
    THEN NextNonEmpty(lines)
    ELSE LET line == lines[1]
             before == Prefix(line, Index(line, "#"))
         IN  IF Strip(before) # <<>>
             THEN RStrip(before)
             ELSE NextNonEmpty(lines)

\* the record comment_parser_helper appends for line idx (0-based), if any
CommentOfLine(text, idx, start_line_num) ==
    LET line == text[idx + 1]
        rest == SubSeq(text, idx + 1, Len(text))
    IN  IF idx < start_line_num
        THEN IF StartsWith(Strip(line), <<"#">>)
             THEN << [comment |-> line, type |-> "general",
                      location |-> locate_comment(rest, "general")] >>
             ELSE <<>>
        ELSE IF StartsWith(Strip(line), <<"#">>)
             THEN << [comment |-> line, type |-> "constraint",
                      location |-> locate_comment(rest, "constraint")] >>
             ELSE IF Contains(line, "#")
                  THEN << [comment |-> Suffix(line, Index(line, "#")),
                           type |-> "constraint",
                           location |-> locate_comment(rest, "constraint")] >>
                  ELSE <<>>

RECURSIVE CommentsFrom(_, _, _)
CommentsFrom(text, idx, start_line_num) ==
    IF idx >= Len(text) THEN <<>>
    ELSE CommentOfLine(text, idx, start_line_num)
             \o CommentsFrom(text, idx + 1, start_line_num)

comment_parser_helper(text) ==
    CommentsFrom(text, 0, position_start_line(text))

---------------------------------------------------------------------------
(* parser.py: comment reinsertion *)

\* the last index (1-based) whose line matches the anchor, or 0
MatchIndexLast(lines, location) ==
    LET hits == { i \in 1..Len(lines) :
                    \/ lines[i] = location
                    \/ RStripChars(lines[i], {" ", ";"}) = location }
    IN  IF hits = {} THEN 0 ELSE CHOOSE i \in hits : \A j \in hits : i >= j

\* the first index (1-based) whose line matches the anchor, or 0
MatchIndex(lines, location) ==
    LET hits == { i \in 1..Len(lines) :
                    \/ lines[i] = location
                    \/ RStripChars(lines[i], {" ", ";"}) = location }
    IN  IF hits = {} THEN 0 ELSE CHOOSE i \in hits : \A j \in hits : i <= j

\* one iteration that puts a comment without matching line at the end
InsertOneOrAppend(lines, comment) ==
    IF comment.location = NoLocation
    THEN ListInsert(lines, 0, comment.comment)
    ELSE LET i == MatchIndex(lines, comment.location)
         IN  IF i = 0 THEN Append(lines, comment.comment)
             ELSE IF comment.type = "general"
                  THEN ListInsert(lines, i - 1, comment.comment)
                  ELSE [lines EXCEPT ![i] =
                            RStrip(lines[i]) \o <<" ", " ">> \o LStrip(comment.comment)]

\* one iteration of the loop over comments[::-1]
InsertOne(lines, comment) ==
    IF comment.location = NoLocation
    THEN ListInsert(lines, 0, comment.comment)
    ELSE LET i == MatchIndex(lines, comment.location)
         IN  IF i = 0 THEN lines
             ELSE IF comment.type = "general"
                  THEN ListInsert(lines, i - 1, comment.comment)
                  ELSE [lines EXCEPT ![i] =
                            RStrip(lines[i]) \o <<" ", " ">> \o LStrip(comment.comment)]

RECURSIVE InsertAll(_, _)
InsertAll(lines, reversed) ==
    IF reversed = <<>> THEN lines
    ELSE InsertAll(InsertOne(lines, Head(reversed)), Tail(reversed))

insert_comments(text, comments) ==
    IF comments = <<>> THEN text
    ELSE Join(InsertAll(text, Reverse(comments)))

---------------------------------------------------------------------------
(* parser.py: shexj_to_shexc, and the round trip of a text's comments *)

\* str(ShExC(schema, base, namespaces)) for the schema parsed from `text`:
\* the text without its comments, every other line reproduced
ShExC(text) ==
    LET start_line_num == position_start_line(text)
        Out(idx) ==
            LET line == text[idx + 1]
            IN  IF StartsWith(Strip(line), <<"#">>) THEN <<>>
                ELSE IF idx >= start_line_num /\ Contains(line, "#")
                     THEN << RStrip(Prefix(line, Index(line, "#"))) >>
                     ELSE << line >>
        F[idx \in 0..Len(text)] ==
            IF idx = Len(text) THEN <<>> ELSE Out(idx) \o F[idx + 1]
    IN  Join(F[0])

shexj_to_shexc(text, comments) == insert_comments(ShExC(text), comments)

\* lines a text of the round trip is made of
CmLines ==
    { <<"<", "S">>,
      <<"a", " ", ";">>,
      <<"b">>,
      <<"#", "c">>,
      <<" ", "#", "d">>,
      <<"a", " ", ";", " ", "#", "e">>,
      <<" ">>,
      <<>> }

CmTexts == UNION { [1..n -> CmLines] : n \in 1..MaxLines }

CmInit ==
    /\ cm_text \in CmTexts
    /\ cm_comments = <<>>
    /\ cm_serialized = << <<>> >>
    /\ cm_out = << <<>> >>
    /\ cm_pc = "start"

CmIdle ==
    /\ cm_text = << <<>> >>
    /\ cm_comments = <<>>
    /\ cm_serialized = << <<>> >>
    /\ cm_out = << <<>> >>
    /\ cm_pc = "idle"

\* shexc_to_shexj's extraction of the comments (parser.py line 120)
Extract ==
    /\ cm_pc = "start"
    /\ cm_comments' = comment_parser_helper(cm_text)
    /\ cm_pc' = "extracted"
    /\ UNCHANGED <<cm_text, cm_serialized, cm_out>>
    /\ UNCHANGED cmOther

\* shexj_to_shexc on the schema parsed from cm_text and the extracted comments
Reinsert ==
    /\ cm_pc = "extracted"
    /\ cm_serialized' = ShExC(cm_text)
    /\ cm_out' = shexj_to_shexc(cm_text, cm_comments)
    /\ cm_pc' = "done"
    /\ UNCHANGED <<cm_text, cm_comments>>
    /\ UNCHANGED cmOther

---------------------------------------------------------------------------
(* parser.py: shexc_to_shexj *)

\* Optional values: None, or the value wrapped
None == <<>>
Some(x) == <<x>>

\* enumerate(lines, start=1) filtered by `i not in removed_lines`
KeepLines(lines, removed_lines) ==
    LET F[i \in 0..Len(lines)] ==
            IF i = 0 THEN <<>>
            ELSE IF i \in removed_lines THEN F[i - 1]
                 ELSE Append(F[i - 1], lines[i])
    IN  F[Len(lines)]

KeepLines0(lines, removed_lines) ==
    LET F[i \in 0..Len(lines)] ==
            IF i = 0 THEN <<>>
            ELSE IF (i - 1) \in removed_lines THEN F[i - 1]
                 ELSE Append(F[i - 1], lines[i])
    IN  F[Len(lines)]

remove_lines0(text, removed_lines) ==
    Join(KeepLines0(SplitLines(text), removed_lines))

remove_lines(text, removed_lines) ==
    Join(KeepLines(SplitLines(text), removed_lines))

\* re.match(r'^[Bb][Aa][Ss][Ee]\s+<(.+)>$', line): group(1) wrapped, or None
BaseMatch(line) ==
    LET rest == Suffix(line, 4)
        t == LStrip(rest)
    IN  IF /\ Len(line) >= 4
           /\ line[1] \in {"B", "b"} /\ line[2] \in {"A", "a"}
           /\ line[3] \in {"S", "s"} /\ line[4] \in {"E", "e"}
           /\ Len(t) < Len(rest)
           /\ Len(t) >= 3
           /\ t[1] = "<"
           /\ t[Len(t)] = ">"
        THEN Some(SubSeq(t, 2, Len(t) - 1))
        ELSE None

base_uri_parser_helper(text) ==
    LET hits == { i \in 1..Len(text) : BaseMatch(text[i]) # None }
    IN  IF hits = {} THEN None
        ELSE BaseMatch(text[CHOOSE i \in hits : \A j \in hits : i <= j])

\* shapespresso.utils.extract_prefix_declarations: the declarations
\* "PREFIX <prefix>: <uri>" of the text, each as the text after the keyword
extract_prefix_declarations(text) ==
    { Suffix(text[i], 7) : i \in { j \in 1..Len(text) :
          StartsWith(text[j], <<"P", "R", "E", "F", "I", "X", " ">>) } }

\* the bindings of the NamespaceManager built for a str input
namespaces_parser_helper(text) == extract_prefix_declarations(text)

\* the schema the grammar engine builds for a text it accepts
Schema(text) == [parsed_from |-> text]

\* jsonasobj.as_json
as_json(schema) == <<"json", schema>>

\* the tuple returned when no schema was obtained (lines 110, 115)
Failure ==
    [shexj_text |-> <<>>, base |-> None, namespaces |-> None,
     comments |-> None, raised |-> "none"]

\* lines 118-121, for the schema last obtained and the current shexc_text
Success(schema, text) ==
    [shexj_text |-> as_json(schema),
     base |-> base_uri_parser_helper(text),
     namespaces |-> Some(namespaces_parser_helper(text)),
     comments |-> Some(comment_parser_helper(text)),
     raised |-> "none"]

\* lines a text given to shexc_to_shexj is made of
ConvLines ==
    { <<"B", "A", "S", "E", " ", "<", "u", ">">>,
      <<"P", "R", "E", "F", "I", "X", " ", "e", ":", " ", "<", "v", ">">>,
      <<"#", "c">>,
      <<"<", "S">>,
      <<"a", " ", "#", "d">>,
      <<>> }

ConvTexts == UNION { [1..n -> ConvLines] : n \in 1..MaxConvLines }

\* ShExEvaluator(schema=text): what the grammar engine may answer for a text.
\* schema is None or the schema of the text; errors is a set of line numbers.
\* The engine is a function of its input: asked again about a text, it
\* answers as before.
EngineAnswers(text) ==
    LET past == { i \in 1..Len(calls) : calls[i].text = text }
    IN  IF past # {}
        THEN { [text |-> text, schema |-> calls[i].schema,
                errors |-> calls[i].errors] : i \in past }
        ELSE { [text |-> text, schema |-> s, errors |-> e] :
                 s \in {None, Some(Schema(text))},
                 e \in SUBSET (1..Len(text)) }

CvInit ==
    /\ input_text \in ConvTexts
    /\ shexc_text = input_text
    /\ calls = <<>>
    /\ cv_result = Failure
    /\ cv_pc = "start"

CvIdle ==
    /\ input_text = << <<>> >>
    /\ shexc_text = << <<>> >>
    /\ calls = <<>>
    /\ cv_result = Failure
    /\ cv_pc = "idle"

\* lines 99-101: the first invocation of the grammar engine
FirstInvoke ==
    /\ cv_pc = "start"
    /\ \E a \in EngineAnswers(shexc_text) : calls' = Append(calls, a)
    /\ cv_pc' = "parsed"
    /\ UNCHANGED <<input_text, shexc_text, cv_result>>
    /\ UNCHANGED cvOther

\* Recover with the test of line 102 weakened to `if not schema:`
RecoverWithoutErrors ==
    /\ cv_pc = "parsed"
    /\ calls[1].schema = None
    /\ LET reduced == remove_lines(shexc_text, calls[1].errors)
       IN  /\ shexc_text' = reduced
           /\ \E a \in [text : {reduced}, schema : {None, Some(Schema(reduced))},
                         errors : SUBSET (1..Len(reduced))] :
                  calls' = Append(calls, a)
    /\ cv_pc' = "retried"
    /\ UNCHANGED <<input_text, cv_result>>
    /\ UNCHANGED cvOther

\* lines 102-105: no schema, some errors: strip their lines and ask again
Recover ==
    /\ cv_pc = "parsed"
    /\ calls[1].schema = None /\ calls[1].errors # {}
    /\ LET reduced == remove_lines(shexc_text, calls[1].errors)
       IN  /\ shexc_text' = reduced
           /\ \E a \in EngineAnswers(reduced) : calls' = Append(calls, a)
    /\ cv_pc' = "retried"
    /\ UNCHANGED <<input_text, cv_result>>
    /\ UNCHANGED cvOther

\* lines 106-107, 118-121
RetrySucceeds ==
    /\ cv_pc = "retried"
    /\ calls[2].schema # None
    /\ cv_result' = Success(calls[2].schema[1], shexc_text)
    /\ cv_pc' = "done"
    /\ UNCHANGED <<input_text, shexc_text, calls>>
    /\ UNCHANGED cvOther

\* lines 108-110
RetryFails ==
    /\ cv_pc = "retried"
    /\ calls[2].schema = None
    /\ cv_result' = Failure
    /\ cv_pc' = "done"
    /\ UNCHANGED <<input_text, shexc_text, calls>>
    /\ UNCHANGED cvOther

\* lines 111-112, 118-121
FirstSucceeds ==
    /\ cv_pc = "parsed"
    /\ ~(calls[1].schema = None /\ calls[1].errors # {})
    /\ calls[1].schema # None
    /\ cv_result' = Success(calls[1].schema[1], shexc_text)
    /\ cv_pc' = "done"
    /\ UNCHANGED <<input_text, shexc_text, calls>>
    /\ UNCHANGED cvOther

\* lines 113-115
FirstFails ==
    /\ cv_pc = "parsed"
    /\ ~(calls[1].schema = None /\ calls[1].errors # {})
    /\ calls[1].schema = None
    /\ cv_result' = Failure
    /\ cv_pc' = "done"
    /\ UNCHANGED <<input_text, shexc_text, calls>>
    /\ UNCHANGED cvOther

---------------------------------------------------------------------------
(* similarity.py: schemas, ShapeNode trees *)

\* A schema is the ShExJ json object: [start, shapes], shapes a sequence of
\* [id, expression]; expression is None or Some([expressions |-> e]) with e
\* None or Some(sequence of constraints).  A constraint is a record
\* [type, predicate, valueExpr, min, max].
\* A tree (ShapeNode) is [label, children], children a sequence of trees.

\* Python's order of the labels used (str comparison, by code point)
LabelOrder == <<"*", "Agent", "IRI", "Person", "knows", "name", "{1,1}">>

Rank(label) == CHOOSE i \in 1..Len(LabelOrder) : LabelOrder[i] = label

\* metrics.utils.get_shapes_dict: the shape of each id
get_shapes_dict(schema) ==
    [id \in { schema.shapes[i].id : i \in 1..Len(schema.shapes) } |->
        LET hits == { i \in 1..Len(schema.shapes) : schema.shapes[i].id = id }
        IN  schema.shapes[CHOOSE i \in hits : \A j \in hits : i >= j]]

\* metrics.utils.get_predicate_node_label: "" when it cannot be determined
get_predicate_node_label(tc) ==
    IF tc.type = "TripleConstraint" THEN tc.predicate ELSE ""

\* metrics.utils.get_node_constraint_node_label
get_node_constraint_node_label(tc) == tc.valueExpr

\* metrics.utils.get_cardinality_node_label
get_cardinality_node_label(tc) ==
    IF tc.min = 0 /\ tc.max = -1 THEN "*"
    ELSE IF tc.min = 0 /\ tc.max = 1 THEN "?"
    ELSE "{1,1}"

ShapeNode(label) == [label |-> label, children |-> <<>>]

add_kid(node, kid) == [node EXCEPT !.children = Append(@, kid)]

\* the children of the start node when a chain equal to an earlier one is
\* not added again
ConstraintNodesMerged(expressions) ==
    LET F[i \in 0..Len(expressions)] ==
            IF i = 0 THEN <<>>
            ELSE LET tc == expressions[i]
                     predicate_node == get_predicate_node_label(tc)
                     chain == add_kid(ShapeNode(predicate_node),
                                  add_kid(ShapeNode(get_node_constraint_node_label(tc)),
                                      ShapeNode(get_cardinality_node_label(tc))))
                 IN  IF predicate_node = ""
                        \/ \E j \in 1..Len(F[i - 1]) : F[i - 1][j] = chain
                     THEN F[i - 1]
                     ELSE Append(F[i - 1], chain)
    IN  F[Len(expressions)]

\* lines 154-171: the children of the start node
ConstraintNodes(expressions) ==
    LET F[i \in 0..Len(expressions)] ==
            IF i = 0 THEN <<>>
            ELSE LET tc == expressions[i]
                     predicate_node == get_predicate_node_label(tc)
                 IN  IF predicate_node = "" THEN F[i - 1]
                     ELSE Append(F[i - 1],
                              add_kid(ShapeNode(predicate_node),
                                  add_kid(ShapeNode(get_node_constraint_node_label(tc)),
                                      ShapeNode(get_cardinality_node_label(tc)))))
    IN  F[Len(expressions)]

\* transform_schema_to_tree falling back to the last shape of the schema
transform_schema_to_tree_last(schema, requested_id) ==
    LET shapes == get_shapes_dict(schema)
        shape_id == IF requested_id \in DOMAIN shapes THEN requested_id
                    ELSE schema.shapes[Len(schema.shapes)].id
        start_shape == shapes[shape_id]
    IN  IF start_shape.expression # None
           /\ start_shape.expression[1].expressions # None
        THEN [label |-> shape_id,
              children |-> ConstraintNodes(start_shape.expression[1].expressions[1])]
        ELSE ShapeNode(shape_id)

\* lines 143-179
transform_schema_to_tree(schema, requested_id) ==
    LET shapes == get_shapes_dict(schema)
        shape_id == IF requested_id \in DOMAIN shapes THEN requested_id
                    ELSE schema.shapes[1].id
        start_shape == shapes[shape_id]
    IN  IF start_shape.expression # None
           /\ start_shape.expression[1].expressions # None
        THEN [label |-> shape_id,
              children |-> ConstraintNodes(start_shape.expression[1].expressions[1])]
        ELSE ShapeNode(shape_id)

\* ShapeNode.__len__
TreeLen(tree) == Len(tree.children)

---------------------------------------------------------------------------
(* similarity.py: canonical sibling order and tree edit distance *)

ChildLabels(tree) == { tree.children[i].label : i \in 1..Len(tree.children) }

\* a key that is the label alone
KeyLessByLabel(a, b, other_labels) ==
    Rank(a.label) < Rank(b.label)

\* key=lambda node: (node.label not in [labels of other's children], node.label)
\* compared as Python compares tuples; bool False < True
KeyLess(a, b, other_labels) ==
    LET fa == IF a.label \notin other_labels THEN 1 ELSE 0
        fb == IF b.label \notin other_labels THEN 1 ELSE 0
    IN  fa < fb \/ (fa = fb /\ Rank(a.label) < Rank(b.label))

\* list.sort(key=...): stable
StableSort(nodes, other_labels) ==
    LET F[i \in 0..Len(nodes)] ==
            IF i = 0 THEN <<>>
            ELSE LET done == F[i - 1]
                     x == nodes[i]
                     \* x goes after every element whose key is not greater
                     pos == Cardinality({ j \in 1..Len(done) :
                                ~KeyLess(x, done[j], other_labels) })
                 IN  SubSeq(done, 1, pos) \o <<x>> \o SubSeq(done, pos + 1, Len(done))
    IN  F[Len(nodes)]

RECURSIVE sort_children(_, _)
sort_children(node, other_labels) ==
    LET sorted == StableSort(node.children, other_labels)
    IN  [label |-> node.label,
         children |-> [i \in 1..Len(sorted) |-> sort_children(sorted[i], other_labels)]]

\* the nodes of a tree in postorder, each with the size of its subtree
RECURSIVE PostOrder(_)
PostOrder(tree) ==
    LET F[i \in 0..Len(tree.children)] ==
            IF i = 0 THEN <<>> ELSE F[i - 1] \o PostOrder(tree.children[i])
        kids == F[Len(tree.children)]
    IN  Append(kids, [label |-> tree.label, size |-> Len(kids) + 1])

\* zss.compare.strdist
strdist(a, b) == IF a = b THEN 0 ELSE 1

Min3(x, y, z) ==
    IF x <= y /\ x <= z THEN x ELSE IF y <= z THEN y ELSE z

\* the leftmost leaf below node x of a postorder
Leftmost(a, x) == x - a[x].size + 1

\* Zhang-Shasha's keyroot of x: the highest node with the leftmost leaf of x
KeyRoot(a, x) ==
    CHOOSE i \in x..Len(a) :
        /\ Leftmost(a, i) = Leftmost(a, x)
        /\ \A k \in (i + 1)..Len(a) : Leftmost(a, k) # Leftmost(a, x)

\* Zhang-Shasha's forest distances for the keyroots i of a and j of b: row r,
\* column c holds the distance of the forests a[l(i)..l(i)+r-2] and
\* b[l(j)..l(j)+c-2]; kra and krb give each node's keyroot, mats holds the
\* matrices of the keyroot pairs before
ForestDist(a, b, kra, krb, mats, i, j) ==
    LET li == Leftmost(a, i)
        lj == Leftmost(b, j)
        H == i - li + 2
        W == j - lj + 2
        remove_cost(x) == strdist(a[x].label, "")
        insert_cost(y) == strdist("", b[y].label)
        update_cost(x, y) == strdist(a[x].label, b[y].label)
        \* the distance of the subtrees at x and y, computed with their keyroots
        treedist(x, y) ==
            mats[<<kra[x], krb[y]>>]
                [x - Leftmost(a, x) + 2][y - Leftmost(b, y) + 2]
        FirstRow[c \in 1..W] ==
            IF c = 1 THEN <<0>>
            ELSE LET prev == FirstRow[c - 1]
                 IN  Append(prev, prev[c - 1] + insert_cost(lj + c - 2))
        RECURSIVE Row(_, _, _)
        Row(rows, r, c) ==
            LET x == li + r - 2
            IN  IF c = 1 THEN << rows[r - 1][1] + remove_cost(x) >>
                ELSE LET cur == Row(rows, r, c - 1)
                         y == lj + c - 2
                         lx == Leftmost(a, x)
                         ly == Leftmost(b, y)
                     IN  Append(cur,
                             Min3(rows[r - 1][c] + remove_cost(x),
                                  cur[c - 1] + insert_cost(y),
                                  IF lx = li /\ ly = lj
                                  THEN rows[r - 1][c - 1] + update_cost(x, y)
                                  ELSE rows[lx - li + 1][ly - lj + 1] + treedist(x, y)))
        RECURSIVE Rows(_)
        Rows(r) ==
            IF r = 1 THEN << FirstRow[W] >>
            ELSE LET rs == Rows(r - 1) IN Append(rs, Row(rs, r, W))
    IN  Rows(H)

\* the keyroots among kr (each node's keyroot), ascending
KeyRoots(kr) ==
    LET F[x \in 0..Len(kr)] ==
            IF x = 0 THEN <<>>
            ELSE IF kr[x] = x THEN Append(F[x - 1], x) ELSE F[x - 1]
    IN  F[Len(kr)]

\* zss.simple_distance(tree_1, tree_2)
simple_distance(t1, t2) ==
    LET a == PostOrder(t1)
        b == PostOrder(t2)
        kra == [x \in 1..Len(a) |-> KeyRoot(a, x)]
        krb == [y \in 1..Len(b) |-> KeyRoot(b, y)]
        ka == KeyRoots(kra)
        kb == KeyRoots(krb)
        RECURSIVE Fill(_)
        Fill(k) ==
            IF k = 0 THEN <<>>
            ELSE LET mats == Fill(k - 1)
                     i == ka[((k - 1) \div Len(kb)) + 1]
                     j == kb[((k - 1) % Len(kb)) + 1]
                 IN  (<<i, j>> :> ForestDist(a, b, kra, krb, mats, i, j)) @@ mats
    IN  Fill(Len(ka) * Len(kb))[<<Len(a), Len(b)>>][Len(a) + 1][Len(b) + 1]

\* compute_tree_edit_distance without the sort of tree_2 (line 232)
compute_tree_edit_distance_sort1(t1, t2) ==
    LET sorted_1 == sort_children(t1, ChildLabels(t2))
    IN  [tree_1 |-> sorted_1, tree_2 |-> t2,
         ted |-> simple_distance(sorted_1, t2)]

\* the two arguments as the call leaves them, and the value returned
compute_tree_edit_distance(t1, t2) ==
    LET sorted_1 == sort_children(t1, ChildLabels(t2))
        sorted_2 == sort_children(t2, ChildLabels(sorted_1))
    IN  [tree_1 |-> sorted_1, tree_2 |-> sorted_2,
         ted |-> simple_distance(sorted_1, sorted_2)]

---------------------------------------------------------------------------
(* Schemas the trees are built from *)

TC(predicate, valueExpr, min, max) ==
    [type |-> "TripleConstraint", predicate |-> predicate,
     valueExpr |-> valueExpr, min |-> min, max |-> max]

KnowsStar == TC("knows", "IRI", 0, -1)
KnowsOne == TC("knows", "IRI", 1, 1)
NameOne == TC("name", "IRI", 1, 1)
\* a disjunction: no predicate of its own
OneOf == [type |-> "OneOf", predicate |-> "", valueExpr |-> "", min |-> 1, max |-> 1]

EachOf(tcs) == Some([expressions |-> Some(tcs)])

MkSchema(id, expression) ==
    [start |-> id, shapes |-> << [id |-> id, expression |-> expression] >>]

TdConstraints == {KnowsStar, KnowsOne, NameOne}

\* a shape without expression, one whose expression has no list, every list
\* of up to MaxConstraints triple constraints, and two lists with a disjunction
TdSchemas ==
    { MkSchema("Person", e) :
        e \in {None, Some([expressions |-> None])}
              \cup { EachOf(tcs) : tcs \in UNION { [1..n -> TdConstraints] :
                                                    n \in 0..MaxConstraints } }
              \cup { EachOf(<<OneOf>>), EachOf(<<KnowsStar, OneOf>>) } }

---------------------------------------------------------------------------
(* Two trees and the calls of compute_tree_edit_distance on them *)

TdInit ==
    /\ td_schema_1 \in TdSchemas
    /\ td_schema_2 \in TdSchemas
    /\ tree_1 = None
    /\ tree_2 = None
    /\ ted_12 = None
    /\ ted_21 = None
    /\ td_pc = "start"

TdIdle ==
    /\ td_schema_1 = MkSchema("Person", None)
    /\ td_schema_2 = MkSchema("Person", None)
    /\ tree_1 = None
    /\ tree_2 = None
    /\ ted_12 = None
    /\ ted_21 = None
    /\ td_pc = "idle"

BuildTrees ==
    /\ td_pc = "start"
    /\ tree_1' = Some(transform_schema_to_tree(td_schema_1, "Person"))
    /\ tree_2' = Some(transform_schema_to_tree(td_schema_2, "Person"))
    /\ td_pc' = "built"
    /\ UNCHANGED <<td_schema_1, td_schema_2, ted_12, ted_21>>
    /\ UNCHANGED tdOther

\* compute_tree_edit_distance(tree_1, tree_2)
Call12 ==
    /\ td_pc = "built"
    /\ ted_12 = None
    /\ \E r \in {compute_tree_edit_distance(tree_1[1], tree_2[1])} :
           /\ tree_1' = Some(r.tree_1)
           /\ tree_2' = Some(r.tree_2)
           /\ ted_12' = Some(r.ted)
    /\ UNCHANGED <<td_schema_1, td_schema_2, ted_21, td_pc>>
    /\ UNCHANGED tdOther

\* compute_tree_edit_distance(tree_2, tree_1)
Call21 ==
    /\ td_pc = "built"
    /\ ted_21 = None
    /\ \E r \in {compute_tree_edit_distance(tree_2[1], tree_1[1])} :
           /\ tree_2' = Some(r.tree_1)
           /\ tree_1' = Some(r.tree_2)
           /\ ted_21' = Some(r.ted)
    /\ UNCHANGED <<td_schema_1, td_schema_2, ted_12, td_pc>>
    /\ UNCHANGED tdOther

---------------------------------------------------------------------------
(* similarity.py: evaluate_ted *)

\* Rationals, for the float quotients
Rat(num, den) == [num |-> num, den |-> den]
RatEq(a, b) == a.num * b.den = b.num * a.den
RatAdd(a, b) == Rat(a.num * b.den + b.num * a.den, a.den * b.den)

RECURSIVE RatSum(_)
RatSum(q) == IF q = <<>> THEN Rat(0, 1) ELSE RatAdd(Head(q), RatSum(Tail(q)))

RECURSIVE Sum(_)
Sum(q) == IF q = <<>> THEN 0 ELSE Head(q) + Sum(Tail(q))

\* A schema file of a class: absent, or holding a text; `shexj` is the
\* shexj_text shexc_to_shexj returns for that text ("" when it obtains no
\* schema)
MissingFile == [exists |-> FALSE, shexj |-> <<>>]
UnparsableFile == [exists |-> TRUE, shexj |-> Failure.shexj_text]
SchemaFile(schema) == [exists |-> TRUE, shexj |-> as_json(schema)]

EvalSchemas ==
    { MkSchema("Person", EachOf(<<KnowsStar>>)),
      MkSchema("Person", EachOf(<<KnowsOne>>)),
      MkSchema("Person", None) }

EvalFiles ==
    {MissingFile, UnparsableFile} \cup { SchemaFile(s) : s \in EvalSchemas }

\* the ground-truth and the predicted file of one class
EvalClasses == [truth : EvalFiles, pred : EvalFiles]

\* line 285 with the tree's node count in place of len(true_schema_tree)
NormalizedTedByNodes(ted, true_schema_tree) ==
    Rat(ted, 3 * Len(PostOrder(true_schema_tree)))

\* line 285: ted / (3 * len(true_schema_tree)), the divisor checked by the caller
NormalizedTed(ted, true_schema_tree) ==
    Rat(ted, 3 * TreeLen(true_schema_tree))

Raised(exception) ==
    [status |-> "raised", raised |-> exception, ted |-> None, normalized |-> None]

\* one iteration of the loop (lines 261-290) for a class with these files
ClassOutcome(class) ==
    IF ~class.truth.exists THEN Raised("FileNotFoundError")
    ELSE IF class.truth.shexj = <<>> THEN Raised("JSONDecodeError")
    ELSE LET true_schema_tree ==
                 transform_schema_to_tree(class.truth.shexj[2], "Person")
         IN  IF ~class.pred.exists
             THEN [status |-> "skipped", raised |-> "none",
                   ted |-> None, normalized |-> None]
             ELSE IF class.pred.shexj = <<>> THEN Raised("JSONDecodeError")
             ELSE LET pred_schema_tree ==
                          transform_schema_to_tree(class.pred.shexj[2], "Person")
                      r == compute_tree_edit_distance(true_schema_tree,
                                                      pred_schema_tree)
                  IN  IF 3 * TreeLen(r.tree_1) = 0
                      THEN Raised("ZeroDivisionError")
                      ELSE [status |-> "compared", raised |-> "none",
                            ted |-> Some(r.ted),
                            normalized |-> Some(NormalizedTed(r.ted, r.tree_1))]

EvInit ==
    /\ ev_n \in 0..MaxClasses
    /\ ev_seen = <<>>
    /\ ev_results = <<>>
    /\ teds = <<>>
    /\ normalized_teds = <<>>
    /\ ev_avg = None
    /\ ev_raised = "none"
    /\ ev_pc = "loop"

EvIdle ==
    /\ ev_n = 0
    /\ ev_seen = <<>>
    /\ ev_results = <<>>
    /\ teds = <<>>
    /\ normalized_teds = <<>>
    /\ ev_avg = None
    /\ ev_raised = "none"
    /\ ev_pc = "idle"

\* an iteration that reaches lines 289-290
ClassCompared ==
    /\ ev_pc = "loop"
    /\ Len(ev_seen) < ev_n
    /\ \E class \in EvalClasses :
         LET o == ClassOutcome(class)
         IN  /\ o.status = "compared"
             /\ ev_seen' = Append(ev_seen, class)
             /\ ev_results' = Append(ev_results, o)
             /\ teds' = Append(teds, o.ted[1])
             /\ normalized_teds' = Append(normalized_teds, o.normalized[1])
    /\ UNCHANGED <<ev_n, ev_avg, ev_raised, ev_pc>>
    /\ UNCHANGED evOther

\* an iteration that ends at line 277
ClassSkipped ==
    /\ ev_pc = "loop"
    /\ Len(ev_seen) < ev_n
    /\ \E class \in EvalClasses :
         LET o == ClassOutcome(class)
         IN  /\ o.status = "skipped"
             /\ ev_seen' = Append(ev_seen, class)
             /\ ev_results' = Append(ev_results, o)
    /\ UNCHANGED <<ev_n, teds, normalized_teds, ev_avg, ev_raised, ev_pc>>
    /\ UNCHANGED evOther

\* an iteration in which an exception leaves evaluate_ted
ClassRaised ==
    /\ ev_pc = "loop"
    /\ Len(ev_seen) < ev_n
    /\ \E class \in EvalClasses :
         LET o == ClassOutcome(class)
         IN  /\ o.status = "raised"
             /\ ev_seen' = Append(ev_seen, class)
             /\ ev_results' = Append(ev_results, o)
             /\ ev_raised' = o.raised
    /\ ev_pc' = "raised"
    /\ UNCHANGED <<ev_n, teds, normalized_teds, ev_avg>>
    /\ UNCHANGED evOther

\* lines 292-297 with the means taken over the classes of the batch
AggregateOverBatch ==
    /\ ev_pc = "loop"
    /\ Len(ev_seen) = ev_n
    /\ IF ev_n = 0
       THEN /\ ev_pc' = "raised"
            /\ ev_raised' = "ZeroDivisionError"
            /\ UNCHANGED ev_avg
       ELSE /\ ev_pc' = "returned"
            /\ ev_avg' = Some([ted |-> Rat(Sum(teds), ev_n),
                               normalized |->
                                   LET t == RatSum(normalized_teds)
                                   IN  Rat(t.num, t.den * ev_n)])
            /\ UNCHANGED ev_raised
    /\ UNCHANGED <<ev_n, ev_seen, ev_results, teds, normalized_teds>>
    /\ UNCHANGED evOther

\* lines 292-297
Aggregate ==
    /\ ev_pc = "loop"
    /\ Len(ev_seen) = ev_n
    /\ IF Len(teds) = 0
       THEN /\ ev_pc' = "raised"
            /\ ev_raised' = "ZeroDivisionError"
            /\ UNCHANGED ev_avg
       ELSE /\ ev_pc' = "returned"
            /\ ev_avg' = Some([ted |-> Rat(Sum(teds), Len(teds)),
                               normalized |->
                                   LET t == RatSum(normalized_teds)
                                   IN  Rat(t.num, t.den * Len(normalized_teds))])
            /\ UNCHANGED ev_raised
    /\ UNCHANGED <<ev_n, ev_seen, ev_results, teds, normalized_teds>>
    /\ UNCHANGED evOther

---------------------------------------------------------------------------
(* similarity.py: transform_schema_to_graph, and what the builders log *)

\* the entries of a shape's "expressions", none when the shape has no
\* "expression" or the expression no "expressions"
Expressions(shape) ==
    IF shape.expression # None /\ shape.expression[1].expressions # None
    THEN shape.expression[1].expressions[1]
    ELSE <<>>

\* the labels of the chain transform_schema_to_graph adds for one entry
Chain(start_shape_id, tc) ==
    << start_shape_id,
       get_predicate_node_label(tc),
       get_node_constraint_node_label(tc),
       get_cardinality_node_label(tc) >>

\* transform_schema_to_graph with one node for each occurrence of a label
transform_schema_to_graph_unmerged(schema) ==
    LET start_shape_id == schema.start
        exprs == Expressions(get_shapes_dict(schema)[start_shape_id])
    IN  [root |-> start_shape_id,
         nodes |-> {<<0, start_shape_id>>}
                       \cup { <<3 * i + h, Chain(start_shape_id, exprs[i])[h + 2]>> :
                                i \in 1..Len(exprs), h \in 0..2 },
         edges |-> {}]

\* a networkx.DiGraph keys its nodes by the label: adding a node or an edge
\* that is there already adds nothing
transform_schema_to_graph(schema) ==
    LET start_shape_id == schema.start
        exprs == Expressions(get_shapes_dict(schema)[start_shape_id])
        chains == { Chain(start_shape_id, exprs[i]) : i \in 1..Len(exprs) }
    IN  [root |-> start_shape_id,
         nodes |-> {start_shape_id} \cup UNION { {c[2], c[3], c[4]} : c \in chains },
         edges |-> UNION { { <<c[1], c[2]>>, <<c[2], c[3]>>, <<c[3], c[4]>> } :
                             c \in chains }]

Warning(event) == [level |-> "warning", event |-> event]

\* the records logged while a builder walks `shape` (lines 77, 80, 175, 178)
ShapeWarnings(shape) ==
    IF shape.expression = None THEN << Warning("Failed to find expression") >>
    ELSE IF shape.expression[1].expressions = None
         THEN << Warning("Failed to find expressions") >>
         ELSE <<>>

\* the records transform_schema_to_tree logs: none at lines 144-148
transform_schema_to_tree_log(schema, requested_id) ==
    LET shapes == get_shapes_dict(schema)
        shape_id == IF requested_id \in DOMAIN shapes THEN requested_id
                    ELSE schema.shapes[1].id
    IN  ShapeWarnings(shapes[shape_id])

transform_schema_to_graph_log(schema) ==
    ShapeWarnings(get_shapes_dict(schema)[schema.start])

\* a disjunction that may be absent
OneOfOpt == [type |-> "OneOf", predicate |-> "", valueExpr |-> "", min |-> 0, max |-> 1]

TrExpressions ==
    {None, Some([expressions |-> None])}
        \cup { EachOf(tcs) : tcs \in UNION { [1..n -> TdConstraints] :
                                             n \in 0..MaxConstraints } }
        \cup { EachOf(<<OneOf>>), EachOf(<<KnowsStar, OneOf>>),
               EachOf(<<KnowsStar, KnowsStar, OneOf, OneOfOpt>>) }

Shape(id, expression) == [id |-> id, expression |-> expression]

\* schemas of one shape, and of two shapes in either order with either of
\* them as the start shape
TrSchemas ==
    { MkSchema("Person", e) : e \in TrExpressions }
        \cup { [start |-> st, shapes |-> sh] :
                 st \in {"Person", "Agent"},
                 sh \in UNION { { << Shape("Person", e), Shape("Agent", e2) >>,
                                  << Shape("Agent", e2), Shape("Person", e) >> } :
                                e \in TrExpressions,
                                e2 \in {None, EachOf(<<NameOne>>)} } }

TrInit ==
    /\ tr_schema \in TrSchemas
    /\ tr_shape_id \in {"Person", "Agent", "Robot"}
    /\ tr_tree = None
    /\ tr_graph = None
    /\ tr_log = <<>>
    /\ tr_pc = "run"

TrIdle ==
    /\ tr_schema = MkSchema("Person", None)
    /\ tr_shape_id = "Person"
    /\ tr_tree = None
    /\ tr_graph = None
    /\ tr_log = <<>>
    /\ tr_pc = "idle"

\* transform_schema_to_tree(tr_schema, tr_shape_id)
TreeBuilt ==
    /\ tr_pc = "run"
    /\ tr_tree = None
    /\ tr_tree' = Some(transform_schema_to_tree(tr_schema, tr_shape_id))
    /\ tr_log' = tr_log \o transform_schema_to_tree_log(tr_schema, tr_shape_id)
    /\ UNCHANGED <<tr_schema, tr_shape_id, tr_graph, tr_pc>>
    /\ UNCHANGED trOther

\* transform_schema_to_graph(tr_schema)
GraphBuilt ==
    /\ tr_pc = "run"
    /\ tr_graph = None
    /\ tr_graph' = Some(transform_schema_to_graph(tr_schema))
    /\ tr_log' = tr_log \o transform_schema_to_graph_log(tr_schema)
    /\ UNCHANGED <<tr_schema, tr_shape_id, tr_tree, tr_pc>>
    /\ UNCHANGED trOther

---------------------------------------------------------------------------
(* parser.py: insert_comments, one iteration of its loop at a time *)

InLines ==
    { <<"a", " ", ";">>,
      <<"a">>,
      <<"b", " ">> }

InTexts == UNION { [1..n -> InLines] : n \in 1..MaxInsLines }

\* records with an anchor that may match several lines ("a"), one line up to
\* trailing characters ("b"), only a comment inserted before ("#d"), or the
\* anchor 0
InRecords ==
    [comment : { <<" ", "#", "c">>, <<"#", "d">> },
     type : {"general", "constraint"},
     location : { NoLocation, <<"a">>, <<"b">>, <<"#", "d">> }]

InInit ==
    /\ in_text \in InTexts
    /\ in_comments \in UNION { [1..n -> InRecords] : n \in 0..MaxRecords }
    /\ in_lines = in_text
    /\ in_before = in_text
    /\ in_left = Len(in_comments)
    /\ in_out = None
    /\ in_log = <<>>
    /\ in_pc = "loop"

InIdle ==
    /\ in_text = << <<>> >>
    /\ in_comments = <<>>
    /\ in_lines = << <<>> >>
    /\ in_before = << <<>> >>
    /\ in_left = 0
    /\ in_out = None
    /\ in_log = <<>>
    /\ in_pc = "idle"

\* lines 249-250
ReturnUnchanged ==
    /\ in_pc = "loop"
    /\ in_comments = <<>>
    /\ in_out' = Some(in_text)
    /\ in_pc' = "done"
    /\ UNCHANGED <<in_text, in_comments, in_lines, in_before, in_left, in_log>>
    /\ UNCHANGED inOther

\* lines 251-261 for the next record of comments[::-1]; nothing is logged
Iteration ==
    /\ in_pc = "loop"
    /\ in_left > 0
    /\ in_before' = in_lines
    /\ in_lines' = InsertOne(in_lines, in_comments[in_left])
    /\ in_left' = in_left - 1
    /\ UNCHANGED <<in_text, in_comments, in_out, in_log, in_pc>>
    /\ UNCHANGED inOther

\* line 262
ReturnJoined ==
    /\ in_pc = "loop"
    /\ in_comments # <<>>
    /\ in_left = 0
    /\ in_out' = Some(Join(in_lines))
    /\ in_pc' = "done"
    /\ UNCHANGED <<in_text, in_comments, in_lines, in_before, in_left, in_log>>
    /\ UNCHANGED inOther

---------------------------------------------------------------------------
(* Specifications *)

InitTree == TrInit /\ CmIdle /\ CvIdle /\ TdIdle /\ EvIdle /\ InIdle
NextTree == TreeBuilt \/ GraphBuilt
SpecTree == InitTree /\ [][NextTree]_vars

InitInsert == InInit /\ CmIdle /\ CvIdle /\ TdIdle /\ EvIdle /\ TrIdle
NextInsert == ReturnUnchanged \/ Iteration \/ ReturnJoined
SpecInsert == InitInsert /\ [][NextInsert]_vars

InitComments == CmInit /\ CvIdle /\ TdIdle /\ EvIdle /\ TrIdle /\ InIdle
NextComments == Extract \/ Reinsert
SpecComments == InitComments /\ [][NextComments]_vars

InitConvert == CvInit /\ CmIdle /\ TdIdle /\ EvIdle /\ TrIdle /\ InIdle
NextConvert ==
    \/ FirstInvoke
    \/ Recover
    \/ RetrySucceeds
    \/ RetryFails
    \/ FirstSucceeds
    \/ FirstFails
SpecConvert == InitConvert /\ [][NextConvert]_vars

InitTed == TdInit /\ CmIdle /\ CvIdle /\ EvIdle /\ TrIdle /\ InIdle
NextTed == BuildTrees \/ Call12 \/ Call21
SpecTed == InitTed /\ [][NextTed]_vars

InitEval == EvInit /\ CmIdle /\ CvIdle /\ TdIdle /\ TrIdle /\ InIdle
NextEval == ClassCompared \/ ClassSkipped \/ ClassRaised \/ Aggregate
SpecEval == InitEval /\ [][NextEval]_vars

---------------------------------------------------------------------------
(* Claims about the comment round trip (SpecComments) *)

\* the text of record r is found in `out` where insert_comments puts it:
\* on a line of its own right before a line equal to the anchor up to
\* surrounding whitespace (general), at the end of such a line (constraint),
\* or anywhere as a line of its own when the record has no anchor
Carried(r, out) ==
    IF r.location = NoLocation
    THEN \E i \in 1..Len(out) : out[i] = r.comment
    ELSE IF r.type = "general"
         THEN \E i \in 1..(Len(out) - 1) :
                  /\ out[i] = r.comment
                  /\ Strip(out[i + 1]) = Strip(r.location)
         ELSE \E i \in 1..Len(out) : \E n \in 0..Len(out[i]) :
                  /\ Suffix(out[i], n) = LStrip(r.comment)
                  /\ Strip(Prefix(out[i], n)) = Strip(r.location)

\* C1: after extracting the comments of a text and reinserting them into the
\* re-serialized text, every extracted comment record is present in the
\* result at a line equal (up to surrounding whitespace) to its anchor line.
C1_RoundTripKeepsComments ==
    cm_pc = "done" =>
        \A k \in 1..Len(cm_comments) : Carried(cm_comments[k], cm_out)

---------------------------------------------------------------------------
(* Claims about shexc_to_shexj (SpecConvert) *)

\* the lines of `lines` whose 1-based number is not in L, in their order
WithoutLines(lines, L) ==
    LET kept == { i \in 1..Len(lines) : i \notin L }
        Nth(k) == CHOOSE i \in kept : Cardinality({ j \in kept : j <= i }) = k
    IN  [k \in 1..Cardinality(kept) |-> lines[Nth(k)]]

Recovered == Len(calls) = 2

\* C2: when the first invocation gave no schema and errors on lines L, the
\* engine is asked about the input without exactly the lines numbered in L
\* (the others kept in order), and if it returns a schema for that text the
\* conversion succeeds with that schema.
C2_RecoverySuccess ==
    Recovered =>
        /\ calls[1].text = input_text
        /\ calls[2].text
               = Join(WithoutLines(SplitLines(input_text), calls[1].errors))
        /\ (cv_pc = "done" /\ calls[2].schema # None) =>
               /\ cv_result.raised = "none"
               /\ cv_result.shexj_text = as_json(Schema(calls[2].text))

C2_Witness ==
    /\ cv_pc = "done"
    /\ Recovered
    /\ Len(input_text) = 3
    /\ calls[1].errors = {2}
    /\ calls[2].schema # None
    /\ cv_result.shexj_text # <<>>

\* C3: when the engine gives no schema for the reduced text either, the
\* conversion raises UnrecoverableParseError and returns nothing.
C3_UnrecoverableRaises ==
    (cv_pc = "done" /\ Recovered /\ calls[2].schema = None) =>
        cv_result.raised = "UnrecoverableParseError"

\* C4: the engine is invoked at most twice; a second invocation follows only
\* a first one that gave no schema and some errors; a first invocation that
\* gave neither schema nor errors ends the conversion in failure with no
\* line removed and no second invocation.
C4_RetryBound ==
    /\ Len(calls) <= 2
    /\ (cv_pc = "start") = (calls = <<>>)
    /\ Recovered => (calls[1].schema = None /\ calls[1].errors # {})
    /\ (cv_pc = "done" /\ calls[1].schema = None /\ calls[1].errors = {}) =>
           /\ Len(calls) = 1
           /\ shexc_text = input_text
           /\ cv_result = Failure

C4_Witness ==
    /\ cv_pc = "done"
    /\ Recovered
    /\ calls[2].schema = None
    /\ calls[2].errors # {}

\* C5: on the degraded success path the comments, base URI and namespaces
\* returned are those of the original input text.
C5_DegradedScansOriginal ==
    (cv_pc = "done" /\ Recovered /\ calls[2].schema # None) =>
        /\ cv_result.comments = Some(comment_parser_helper(input_text))
        /\ cv_result.base = base_uri_parser_helper(input_text)
        /\ cv_result.namespaces = Some(namespaces_parser_helper(input_text))

---------------------------------------------------------------------------
(* Claims about compute_tree_edit_distance (SpecTed) *)

\* the trees of the two schemas as transform_schema_to_tree builds them
FreshTree_1 == transform_schema_to_tree(td_schema_1, "Person")
FreshTree_2 == transform_schema_to_tree(td_schema_2, "Person")

\* C8: compute_tree_edit_distance(A, B) equals compute_tree_edit_distance(B, A):
\* for the two calls made one after the other on the same two trees (the
\* second call working on the trees as the first one sorted them), in either
\* order, and for each call against the opposite call on freshly built trees.
C8_Symmetry ==
    /\ (ted_12 # None /\ ted_21 # None) => ted_12 = ted_21
    /\ ted_12 # None =>
           ted_12[1] = compute_tree_edit_distance(FreshTree_2, FreshTree_1).ted
    /\ ted_21 # None =>
           ted_21[1] = compute_tree_edit_distance(FreshTree_1, FreshTree_2).ted

\* both calls made on trees with several children in different orders, at a
\* distance that is not 0
C8_Witness ==
    /\ ted_12 # None
    /\ ted_21 # None
    /\ ted_12[1] > 0
    /\ TreeLen(FreshTree_1) = 2
    /\ TreeLen(FreshTree_2) = 2
    /\ FreshTree_1.children[1].label # FreshTree_1.children[2].label
    /\ FreshTree_2.children[1].label = FreshTree_1.children[2].label
    /\ tree_1[1] # FreshTree_1

---------------------------------------------------------------------------
(* Claims about evaluate_ted (SpecEval) *)

\* a class one of whose two files is missing or does not parse
BadFile(class) ==
    \/ ~class.truth.exists
    \/ ~class.pred.exists
    \/ class.truth.shexj = <<>>
    \/ class.pred.shexj = <<>>

\* C6: a class whose ground-truth or predicted file is missing or fails to
\* parse does not abort the batch: no exception leaves evaluate_ted on account
\* of such a class.
C6_BatchIsolation ==
    \A k \in 1..Len(ev_seen) :
        BadFile(ev_seen[k]) => ev_results[k].status # "raised"

\* the classes seen so far that have a predicted file
WithPred == { k \in 1..Len(ev_seen) : ev_seen[k].pred.exists }

\* the distance of a class's two schemas, computed from its files
DistanceOf(class) ==
    compute_tree_edit_distance(
        transform_schema_to_tree(class.truth.shexj[2], "Person"),
        transform_schema_to_tree(class.pred.shexj[2], "Person")).ted

RECURSIVE SumOver(_)
SumOver(K) ==
    IF K = {} THEN 0
    ELSE LET k == CHOOSE x \in K : TRUE
         IN  DistanceOf(ev_seen[k]) + SumOver(K \ {k})

\* C7: a class without predicted file adds nothing to either accumulator, and
\* a mean raw distance that evaluate_ted reports is the sum of the distances of
\* exactly the classes with a predicted file divided by their number.
C7_MeanOverPresent ==
    /\ \A k \in 1..Len(ev_seen) :
           ~ev_seen[k].pred.exists => ev_results[k].status # "compared"
    /\ Len(teds)
           = Cardinality({ k \in 1..Len(ev_seen) : ev_results[k].status = "compared" })
    /\ Len(normalized_teds) = Len(teds)
    /\ ev_pc = "returned" =>
           /\ WithPred # {}
           /\ RatEq(ev_avg[1].ted, Rat(SumOver(WithPred), Cardinality(WithPred)))

\* three classes, the predicted file of exactly one missing, a mean that is
\* neither 0 nor the same over three classes
C7_Witness ==
    /\ ev_pc = "returned"
    /\ ev_n = 3
    /\ Cardinality(WithPred) = 2
    /\ Sum(teds) > 0

\* C9: for a class whose predicted schema is its ground-truth schema (the tree
\* of a shape without constraints, the root alone, included) the distance is 0
\* and the normalized distance the evaluator computes is 0.
C9_IdentityDistance ==
    \A k \in 1..Len(ev_seen) :
        ( /\ ev_seen[k].truth.exists
          /\ ev_seen[k].truth.shexj # <<>>
          /\ ev_seen[k].pred = ev_seen[k].truth ) =>
            /\ ev_results[k].status = "compared"
            /\ ev_results[k].ted = Some(0)
            /\ RatEq(ev_results[k].normalized[1], Rat(0, 1))

\* the scenario: Person with (knows, 0, -1) as ground truth, Person with
\* (knows, 1, 1) predicted
Scenario(class) ==
    /\ class.truth = SchemaFile(MkSchema("Person", EachOf(<<KnowsStar>>)))
    /\ class.pred = SchemaFile(MkSchema("Person", EachOf(<<KnowsOne>>)))

\* C10 as stated: in the scenario the tree edit distance is 1 and the
\* normalized distance is 1/9.
C10_ScenarioNinth ==
    \A k \in 1..Len(ev_seen) :
        Scenario(ev_seen[k]) =>
            /\ ev_results[k].status = "compared"
            /\ ev_results[k].ted = Some(1)
            /\ RatEq(ev_results[k].normalized[1], Rat(1, 9))

\* C10: in the scenario the tree edit distance is 1 and the normalized
\* distance is 1/3: the ground-truth tree has one constraint, and the divisor
\* is 3 times the number of constraints.
C10_ScenarioThird ==
    \A k \in 1..Len(ev_seen) :
        Scenario(ev_seen[k]) =>
            /\ ev_results[k].status = "compared"
            /\ ev_results[k].ted = Some(1)
            /\ RatEq(ev_results[k].normalized[1], Rat(1, 3))

C10_Witness ==
    \E k \in 1..Len(ev_seen) :
        /\ Scenario(ev_seen[k])
        /\ ev_results[k].status = "compared"
        /\ normalized_teds # <<>>

---------------------------------------------------------------------------
(* Claims about the tree and graph builders (SpecTree) *)

\* number of nodes of a tree
TreeSize(tree) == Len(PostOrder(tree))

StartExpressions == Expressions(get_shapes_dict(tr_schema)[tr_schema.start])

\* two triple constraints of the start shape with the same predicate label
\* and the same node-constraint label
SharedLabels ==
    \E i, j \in 1..Len(StartExpressions) :
        /\ i # j
        /\ StartExpressions[i].type = "TripleConstraint"
        /\ StartExpressions[j].type = "TripleConstraint"
        /\ get_predicate_node_label(StartExpressions[i])
               = get_predicate_node_label(StartExpressions[j])
        /\ get_node_constraint_node_label(StartExpressions[i])
               = get_node_constraint_node_label(StartExpressions[j])

\* graph and tree built for the same shape, the start shape
BothBuilt ==
    /\ tr_tree # None
    /\ tr_graph # None
    /\ tr_shape_id = tr_schema.start

AllDetermined ==
    \A i \in 1..Len(StartExpressions) :
        get_predicate_node_label(StartExpressions[i]) # ""

---------------------------------------------------------------------------
(* C12: a record whose anchor is not found *)

\* the list without its k-th record
WithoutRecord(comments, k) ==
    SubSeq(comments, 1, k - 1) \o SubSeq(comments, k + 1, Len(comments))

\* the lines as they are when the loop reaches the k-th record: the records
\* after it have been processed
LinesAt(k) ==
    InsertAll(in_text, Reverse(SubSeq(in_comments, k + 1, Len(in_comments))))

\* the k-th record has an anchor, and no line matches it when its turn comes
AnchorNotFound(k) ==
    /\ in_comments[k].location # NoLocation
    /\ MatchIndex(LinesAt(k), in_comments[k].location) = 0

\* C12: when no line of the current text equals a record's anchor, exactly or
\* after stripping trailing spaces and ';', the iteration for that record
\* leaves the lines as they were, insert_comments returns, and its output is
\* the output for the list without that record.
C12_AnchorNotFoundDropped ==
    /\ (in_pc = "loop" /\ in_left < Len(in_comments)
            /\ AnchorNotFound(in_left + 1))
        => in_lines = in_before
    /\ in_pc = "done"
        => /\ in_out # None
           /\ \A k \in 1..Len(in_comments) :
                AnchorNotFound(k)
                    => in_out = Some(insert_comments(in_text,
                                        WithoutRecord(in_comments, k)))

\* two records, the first one's anchor not found, the second one reinserted
C12_Witness ==
    /\ in_pc = "done"
    /\ Len(in_comments) = 2
    /\ AnchorNotFound(1)
    /\ ~AnchorNotFound(2)
    /\ in_out # Some(Join(in_text))

---------------------------------------------------------------------------
(* C13: the shape the tree is built from *)

\* the requested id is the id of one of the schema's shapes
Resolved ==
    \E i \in 1..Len(tr_schema.shapes) : tr_schema.shapes[i].id = tr_shape_id

\* C13: when the shape id passed to transform_schema_to_tree is absent from
\* the schema's shapes, the tree is rooted at the id of the first shape of the
\* schema and its children are built from that first shape's triple
\* constraints; when the id is present the root label is the requested id.
C13_FallbackFirstShape ==
    tr_tree # None
        => IF Resolved
           THEN tr_tree[1].label = tr_shape_id
           ELSE /\ tr_tree[1].label = tr_schema.shapes[1].id
                /\ tr_tree[1].children
                     = ConstraintNodes(Expressions(tr_schema.shapes[1]))

\* an absent id, and a first shape whose tree differs from the second's
C13_Witness ==
    /\ tr_tree # None
    /\ ~Resolved
    /\ Len(tr_schema.shapes) = 2
    /\ tr_schema.shapes[1].id = "Agent"
    /\ tr_schema.start = "Person"
    /\ tr_tree[1].label = "Agent"
    /\ Len(tr_tree[1].children) = 1
    /\ Len(Expressions(tr_schema.shapes[2])) = 2

---------------------------------------------------------------------------
(* C14: the warning channel *)

Logged(log, events) == \E i \in 1..Len(log) : log[i].event \in events

\* C14: every occurrence of a non-fatal condition has emitted a log record
\* when the operation returns: a requested shape id absent so that the tree
\* builder falls back to the first shape, a shape without expression or
\* constraint sequence, and a comment whose anchor insert_comments does not
\* find.
C14_NonFatalLogged ==
    /\ (tr_tree # None /\ ~Resolved)
        => Logged(tr_log, {"Shape id not found"})
    /\ (tr_tree # None
            /\ Resolved
            /\ ShapeWarnings(get_shapes_dict(tr_schema)[tr_shape_id]) # <<>>)
        => Logged(tr_log, {"Failed to find expression",
                           "Failed to find expressions"})
    /\ (in_pc = "done" /\ \E k \in 1..Len(in_comments) : AnchorNotFound(k))
        => in_log # <<>>

---------------------------------------------------------------------------
(* C15: classification of the lines of a text *)

\* s: the 0-based index of the first line starting with 'start' or '<', or 0
StartIndex ==
    LET shape_lines == { i \in 0..(Len(cm_text) - 1) :
                           \/ StartsWith(cm_text[i + 1], <<"s", "t", "a", "r", "t">>)
                           \/ StartsWith(cm_text[i + 1], <<"<">>) }
    IN  IF shape_lines = {} THEN 0
        ELSE CHOOSE i \in shape_lines : \A j \in shape_lines : i <= j

\* the first character of the line that is no whitespace is '#'
FullLineComment(i) ==
    \E h \in 1..Len(cm_text[i + 1]) :
        /\ cm_text[i + 1][h] = "#"
        /\ \A g \in 1..(h - 1) : cm_text[i + 1][g] = " "

Kind(i) ==
    IF FullLineComment(i)
    THEN IF i < StartIndex THEN "general" ELSE "constraint"
    ELSE IF i >= StartIndex /\ Contains(cm_text[i + 1], "#")
         THEN "constraint"
         ELSE "none"

\* the text of the record of line i: the line, or the line from its first '#'
CommentText(i) ==
    IF FullLineComment(i) THEN cm_text[i + 1]
    ELSE LET h == CHOOSE h \in 1..Len(cm_text[i + 1]) :
                    /\ cm_text[i + 1][h] = "#"
                    /\ \A g \in 1..(h - 1) : cm_text[i + 1][g] # "#"
         IN  SubSeq(cm_text[i + 1], h, Len(cm_text[i + 1]))

Emitting == { i \in 0..(Len(cm_text) - 1) : Kind(i) # "none" }

\* the line of the k-th record when each emitting line has one record and the
\* records are in line order
LineOfRecord(k) ==
    CHOOSE i \in Emitting : Cardinality({ j \in Emitting : j < i }) = k - 1

\* C15: with s the index of the first line starting with 'start' or '<' (0 if
\* none), comment_parser_helper emits one record for each full-line comment
\* (General before s, Constraint from s on) and for each other line from s on
\* that contains '#' (Constraint, the text running from the first '#' to the
\* end of the line), no record for any other line, and the records are in
\* line order.
C15_Classification ==
    cm_pc # "start"
        => /\ Len(cm_comments) = Cardinality(Emitting)
           /\ \A k \in 1..Len(cm_comments) :
                /\ cm_comments[k].type = Kind(LineOfRecord(k))
                /\ cm_comments[k].comment = CommentText(LineOfRecord(k))

\* a General comment, the start line, a full-line Constraint comment and an
\* inline comment
C15_Witness ==
    /\ cm_pc # "start"
    /\ Len(cm_text) = 4
    /\ StartIndex = 1
    /\ Len(cm_comments) = 3
    /\ cm_comments[1].type = "general"
    /\ cm_comments[2].type = "constraint"
    /\ cm_comments[2].comment = <<" ", "#", "d">>
    /\ cm_comments[3].comment = <<"#", "e">>

---------------------------------------------------------------------------
(* C16, C17: the anchor of a record *)

\* a line that is empty or consists only of whitespace
Blank(line) == \A h \in 1..Len(line) : line[h] = " "

\* the lines after line i that are not blank
NonBlankAfter(i) ==
    { j \in (i + 1)..(Len(cm_text) - 1) : ~Blank(cm_text[j + 1]) }

\* the nearest following non-blank line; the sentinel when there is none
NearestNonBlank(i) ==
    IF NonBlankAfter(i) = {} THEN NoLocation
    ELSE cm_text[(CHOOSE j \in NonBlankAfter(i) :
                     \A g \in NonBlankAfter(i) : j <= g) + 1]

\* the part of line i before its first '#'
BeforeHash(i) ==
    LET h == CHOOSE h \in 1..Len(cm_text[i + 1]) :
                    /\ cm_text[i + 1][h] = "#"
                    /\ \A g \in 1..(h - 1) : cm_text[i + 1][g] # "#"
    IN  SubSeq(cm_text[i + 1], 1, h - 1)

\* C16: for a line at or after the start index that contains '#' after a
\* non-blank prefix, the record's anchor is that prefix with trailing
\* whitespace and trailing ';' and space characters stripped; when the part
\* before the first '#' is blank the anchor is the nearest following non-blank
\* line.
C16_InlineAnchor ==
    cm_pc # "start"
        => \A k \in 1..Len(cm_comments) :
             LET i == LineOfRecord(k)
             IN  (i >= StartIndex /\ Contains(cm_text[i + 1], "#"))
                     => IF ~Blank(BeforeHash(i))
                        THEN cm_comments[k].location
                                 = RStripChars(BeforeHash(i), {" ", ";"})
                        ELSE cm_comments[k].location = NearestNonBlank(i)

\* C17: for every full-line comment record, General or Constraint, the anchor
\* is the verbatim text of the nearest following line that is not blank, a
\* line that is empty or consists only of whitespace being skipped; the
\* anchor is the start-of-document sentinel exactly when no such line follows.
C17_FullLineAnchor ==
    cm_pc # "start"
        => \A k \in 1..Len(cm_comments) :
             LET i == LineOfRecord(k)
             IN  FullLineComment(i)
                     => /\ cm_comments[k].location = NearestNonBlank(i)
                        /\ cm_comments[k].location = NoLocation
                               <=> NonBlankAfter(i) = {}

---------------------------------------------------------------------------
(* C18: what one record does to the lines *)

\* an iteration of the loop has been made
Iterated == in_pc \in {"loop", "done"} /\ in_left < Len(in_comments)

\* the record of the last iteration: the records are taken last to first
LastRecord == in_comments[in_left + 1]

\* the lines, before the last iteration, that equal its record's anchor
\* exactly or after stripping trailing spaces and ';'
AnchorLines ==
    { i \in 1..Len(in_before) :
        \/ in_before[i] = LastRecord.location
        \/ RStripChars(in_before[i], {" ", ";"}) = LastRecord.location }

FirstAnchorLine == CHOOSE i \in AnchorLines : \A j \in AnchorLines : i <= j

\* C18: insert_comments processes the records from last to first; a record
\* with the sentinel anchor becomes line 0; any other record acts on the first
\* line, from the top of the current lines, that equals its anchor exactly or
\* after stripping trailing spaces and ';': a General comment becomes a new
\* line immediately before that line, a Constraint comment is appended to
\* that line separated by exactly two spaces, the number of lines unchanged.
\* No other line is changed.
C18_ReinsertionForm ==
    Iterated
        => IF LastRecord.location = NoLocation
           THEN in_lines = <<LastRecord.comment>> \o in_before
           ELSE IF AnchorLines = {}
           THEN in_lines = in_before
           ELSE IF LastRecord.type = "general"
           THEN /\ Len(in_lines) = Len(in_before) + 1
                /\ in_lines[FirstAnchorLine] = LastRecord.comment
                /\ \A i \in 1..Len(in_before) :
                     in_before[i] = in_lines[IF i < FirstAnchorLine THEN i ELSE i + 1]
           ELSE /\ Len(in_lines) = Len(in_before)
                /\ in_lines[FirstAnchorLine]
                     = RStrip(in_before[FirstAnchorLine])
                           \o <<" ", " ">> \o LStrip(LastRecord.comment)
                /\ \A i \in 1..Len(in_before) :
                     i # FirstAnchorLine => in_lines[i] = in_before[i]

\* a Constraint comment with leading space whose anchor matches two lines, the
\* first of them after stripping
C18_Witness ==
    /\ Iterated
    /\ LastRecord.type = "constraint"
    /\ LastRecord.comment = <<" ", "#", "c">>
    /\ Cardinality(AnchorLines) = 2
    /\ in_before[FirstAnchorLine] = <<"a", " ", ";">>
    /\ in_lines[FirstAnchorLine] = <<"a", " ", ";", " ", " ", "#", "c">>

---------------------------------------------------------------------------
(* C19: the order of the root children after a call *)

\* among A's root children those whose label is the label of a root child of
\* B come first, and within each of the two groups the labels do not decrease
Canonical(A, B) ==
    \A i, j \in 1..Len(A.children) :
        i < j
            => LET shared_i == \E h \in 1..Len(B.children) :
                                    B.children[h].label = A.children[i].label
                   shared_j == \E h \in 1..Len(B.children) :
                                    B.children[h].label = A.children[j].label
               IN  /\ shared_j => shared_i
                   /\ (shared_i <=> shared_j)
                        => Rank(A.children[i].label) <= Rank(A.children[j].label)

\* C19: after compute_tree_edit_distance(A, B) has sorted its arguments, among
\* the root children of A every child whose label occurs among the labels of
\* B's root children precedes every child whose label does not, and within
\* each of the two groups the labels are in non-decreasing order; the same
\* holds for B with respect to A's root children.
C19_CanonicalOrder ==
    (ted_12 # None \/ ted_21 # None)
        => /\ Canonical(tree_1[1], tree_2[1])
           /\ Canonical(tree_2[1], tree_1[1])

\* the call has moved the child shared with the other tree before a child
\* with a smaller label
C19_Witness ==
    /\ ted_12 # None
    /\ ted_21 = None
    /\ td_schema_1 = MkSchema("Person", EachOf(<<KnowsStar, NameOne>>))
    /\ td_schema_2 = MkSchema("Person", EachOf(<<NameOne>>))
    /\ Len(tree_1[1].children) = 2
    /\ tree_1[1].children[1].label = "name"
    /\ tree_1[1].children[2].label = "knows"

---------------------------------------------------------------------------
(* C20: the shape of the tree *)

\* the shape the tree is built from (C13)
UsedShape ==
    IF Resolved
    THEN tr_schema.shapes[CHOOSE i \in 1..Len(tr_schema.shapes) :
                                tr_schema.shapes[i].id = tr_shape_id]
    ELSE tr_schema.shapes[1]

Determined(tc) == get_predicate_node_label(tc) # ""

\* the entries of the shape's constraint sequence whose predicate label can be
\* determined, in order; none for a shape without constraint sequence
Kept == SelectSeq(Expressions(UsedShape), Determined)

RECURSIVE NodeCount(_)
NodeCount(tree) ==
    LET F[i \in 0..Len(tree.children)] ==
            IF i = 0 THEN 0 ELSE F[i - 1] + NodeCount(tree.children[i])
    IN  1 + F[Len(tree.children)]

\* C20: the tree built by transform_schema_to_tree has exactly 1 + 3k nodes,
\* k the number of triple constraints of the shape whose predicate label can
\* be determined; the root has k children in constraint order, each a chain
\* predicate -> node constraint -> cardinality with exactly one child per
\* level, and constraints with identical labels yield a chain each.
C20_TreeShape ==
    tr_tree # None
        => LET tree == tr_tree[1]
               k == Len(Kept)
           IN  /\ NodeCount(tree) = 1 + 3 * k
               /\ Len(tree.children) = k
               /\ \A i \in 1..k :
                    LET p == tree.children[i]
                    IN  /\ p.label = get_predicate_node_label(Kept[i])
                        /\ Len(p.children) = 1
                        /\ p.children[1].label
                             = get_node_constraint_node_label(Kept[i])
                        /\ Len(p.children[1].children) = 1
                        /\ p.children[1].children[1].label
                             = get_cardinality_node_label(Kept[i])
                        /\ p.children[1].children[1].children = <<>>

\* four entries, two of them skipped and the other two with identical labels
C20_Witness ==
    /\ tr_tree # None
    /\ Len(Expressions(UsedShape)) = 4
    /\ Len(Kept) = 2
    /\ Kept[1] = Kept[2]
    /\ NodeCount(tr_tree[1]) = 7
    /\ tr_tree[1].children[1] = tr_tree[1].children[2]

---------------------------------------------------------------------------
(* C21: the order in which a shape lists its constraints *)

\* the orders a list can be put in
Orders(list) ==
    { [i \in 1..Len(list) |-> list[p[i]]] :
        p \in { q \in [1..Len(list) -> 1..Len(list)] :
                  \A i, j \in 1..Len(list) : q[i] = q[j] => i = j } }

\* the schemas that list the same constraints as `schema` in some order
Reordered(schema) ==
    IF Expressions(schema.shapes[1]) = <<>> THEN {schema}
    ELSE { MkSchema("Person", EachOf(tcs)) :
             tcs \in Orders(Expressions(schema.shapes[1])) }

\* compute_tree_edit_distance on the trees of two schemas
DistanceOfSchemas(s1, s2) ==
    compute_tree_edit_distance(transform_schema_to_tree(s1, "Person"),
                               transform_schema_to_tree(s2, "Person")).ted

\* C21: the value of compute_tree_edit_distance on the trees of two schemas
\* does not depend on the order in which each shape lists its triple
\* constraints; two trees built from the same constraints listed in different
\* orders have distance 0, also when constraints share the predicate label.
C21_OrderIndependence ==
    ted_12 # None
        => /\ \A s1 \in Reordered(td_schema_1), s2 \in Reordered(td_schema_2) :
                DistanceOfSchemas(s1, s2) = ted_12[1]
           /\ td_schema_2 \in Reordered(td_schema_1) => ted_12[1] = 0

---------------------------------------------------------------------------
(* C22: the aggregate of a batch *)

\* the classes of the batch that reached lines 289-290
Compared == { k \in 1..Len(ev_results) : ev_results[k].status = "compared" }

\* the loop has ended with every class of the batch compared or skipped, and
\* lines 292-297 have been executed
LoopCompleted ==
    /\ ev_pc \in {"returned", "raised"}
    /\ Len(ev_seen) = ev_n
    /\ \A k \in 1..Len(ev_results) : ev_results[k].status # "raised"

\* C22: after the evaluator loop the two accumulators have the same length,
\* the number of classes compared, and evaluate_ted returns its aggregate
\* without raising for every batch, the empty batch and a batch in which no
\* class has a predicted file included.
C22_AggregationDefined ==
    /\ Len(teds) = Cardinality(Compared)
    /\ Len(normalized_teds) = Cardinality(Compared)
    /\ LoopCompleted
        => /\ ev_pc = "returned"
           /\ ev_raised = "none"
           /\ ev_avg # None

====
